---- MODULE Spec2Model ----
(***************************************************************************)
(* The trading control loop of JosipJeramaz/tradingbot: TradingEngine      *)
(* (src/src/trading/engine.ts, second listing, lines 205-485),             *)
(* TradingStateManager and PositionManager (src/src/trading/state.ts),     *)
(* RiskManager (src/src/trading/risk.ts) and the price stream of           *)
(* BinanceConnector (src/unnamed/part_000).                                *)
(*                                                                         *)
(* Every async method is a task that advances one await at a time; the     *)
(* tasks in flight are a bag, so any number of handlers may overlap the    *)
(* way Node's event loop lets them.  A nullable field is a set: {} is      *)
(* null, {v} holds v.  Prices are in units of 0.001, stake percentages in  *)
(* units of 0.01 %.                                                        *)
(***************************************************************************)
EXTENDS Integers, Sequences, FiniteSets, Bags, TLC

(* ------------------------------ bounds -------------------------------- *)
\* tick handlers (open, close, trailing-stop tasks) in flight at once, and
\* stake adjustments in flight at once
MaxInFlight == 2
\* start() calls, stop() calls and level refreshes in flight at once, each
MaxCalls == 1
\* calendar days after the first one
MaxDay == 1
\* losses and calendar days in the RiskManager's run by itself
MaxLosses == 5
LossDays == 3
\* WebSocket objects alive, plus reconnects pending, at once
MaxSockets == 2
\* level-refresh intervals ever scheduled, one by each start() that completes
MaxTimers == 2

(* -------------------------- program constants ------------------------- *)
maxDailyLosses == 3
maxReconnectAttempts == 5
maxRetries == 3
\* openPosition refuses at this many resting LIMIT orders on the entry's side
maxOpenLimitOrders == 4
\* constructor default of currentStakePercentage, 6.0
InitialStake == 600
\* the caps written into adjustStakePercentage: Math.min(16.0, ..), Math.max(2, ..)
StakeCap == 1600
StakeFloor == 200
\* TRADING_CONSTANTS.MIN_STAKE_PERCENTAGE 1.5 and MAX_STAKE_PERCENTAGE 16
MIN_STAKE_PERCENTAGE == 150
MAX_STAKE_PERCENTAGE == 1600

Null == {}
Some(v) == {v}
The(s) == CHOOSE x \in s : TRUE

\* a / b rounded to the nearest unit, as fixedNumber rounds at its last digit
RoundDiv(a, b) == (2 * a + b) \div (2 * b)
Abs(x) == IF x < 0 THEN -x ELSE x
Min(a, b) == IF a < b THEN a ELSE b
Max(a, b) == IF a < b THEN b ELSE a

(* ----------------------- the environment's values --------------------- *)
\* trade prices the stream delivers
Prices == {99800, 99900, 100000, 101250, 102000}
\* prices fetchTicker reports and MARKET orders fill at
Fills == {99800, 102000}
\* prices of a market where no exit is due: at the hold level and clear of every level
QuietPrices == {100000, 101250}
\* stake percentages an earlier run can have written
PersistedStakes == {200, 300, 600, 1600}
\* how many LIMIT orders can rest on a side of the book
OpenLimitOrders == {0, 3, 4, 5}
\* USDT balances fetchBalance reports
Balances == {1000}
\* the LevelAnalysis snapshots analyzeLevels produces
LevelSnapshots ==
    { [holdLevels       |-> [tf \in {"4h", "1h", "15m", "5m"} |->
                               IF tf = "1h" THEN <<100050>> ELSE <<>>],
       resistanceLevels |-> [tf \in {"4h", "1h", "15m", "5m"} |->
                               IF tf = "4h" THEN <<105000>>
                               ELSE IF tf = "15m" THEN <<102000>> ELSE <<>>]] }

VARIABLES
    \* TradingEngine
    isRunning, isOpeningPosition, levelTimers, tasks,
    \* TradingStateManager and its state file
    currentPosition, currentStakePercentage, accountBalance, lastLevels, lastUpdate,
    disk,
    \* RiskManager and the calendar
    dailyLosses, lastLossDate, today,
    \* BinanceConnector
    ws, sockets, reconnectAttempts, reconnecting, pingInterval,
    \* the host's view: stop() has returned and start() was not called since
    stopReturned,
    \* the host's view of the last step: the engine event it emitted and the
    \* handler whose promise it rejected
    last

engineVars == <<isRunning, isOpeningPosition, levelTimers, tasks>>
stateVars == <<currentPosition, currentStakePercentage, accountBalance, lastLevels,
               lastUpdate>>
riskVars == <<dailyLosses, lastLossDate>>
connVars == <<ws, sockets, reconnectAttempts, reconnecting, pingInterval>>
vars == <<isRunning, isOpeningPosition, levelTimers, tasks,
          currentPosition, currentStakePercentage, accountBalance, lastLevels, lastUpdate,
          disk,
          dailyLosses, lastLossDate, today,
          ws, sockets, reconnectAttempts, reconnecting, pingInterval,
          stopReturned, last>>

\* Listeners of the program as shipped: TradingBot.setupEventHandlers attaches
\* five to the engine, and nothing attaches one to the TradingBot itself.
EngineListeners == {"started", "stopped", "positionOpened", "positionClosed", "error"}
BotListeners == {}

\* EventEmitter.emit('error', e) throws e when no 'error' listener exists, and
\* a listener's own exception propagates to the caller of emit: the engine's
\* only 'error' listener re-emits 'error' on the TradingBot.
emitErrorThrows == "error" \notin EngineListeners \/ "error" \notin BotListeners

Quiet == [event |-> "none", cause |-> "none", rejected |-> "none"]
Emitted(e) == [event |-> e, cause |-> "none", rejected |-> "none"]
\* A handler whose catch block reports the failure (the call that failed is the
\* cause the event carries) and rethrows it.
Rethrown(handler, cause) == [event |-> "error", cause |-> cause, rejected |-> handler]
\* A handler that reports a failure with emit('error') inside its catch block:
\* when emit throws, the handler's promise rejects.
Failed(handler, cause) ==
    [event |-> "error", cause |-> cause,
     rejected |-> IF emitErrorThrows THEN handler ELSE "none"]

(* ======================= TradingStateManager ========================== *)
\* the document save() writes: JSON.stringify of the whole aggregate
\* a save() that stamps the document with the time of writing
SerializeStamped(pos, stake, bal, lev, upd) ==
    [currentPosition |-> pos, currentStakePercentage |-> stake,
     accountBalance |-> bal, lastLevels |-> lev, lastUpdate |-> Some(today)]

Serialize(pos, stake, bal, lev, upd) ==
    [currentPosition |-> pos, currentStakePercentage |-> stake,
     accountBalance |-> bal, lastLevels |-> lev, lastUpdate |-> upd]

\* the documents a previous run can have left in the state file
PersistedPositions ==
    { [type |-> "LONG", entryPrice |-> 100000, stopLoss |-> 99840,
       takeProfit |-> 102000, updates |-> <<>>] }
PersistedDocs ==
    { Serialize(Some(q), 300, Some(1000), Null, Null) : q \in PersistedPositions }

(* ============================ the tasks =============================== *)
\* One record shape for every task.  k: which async method; pc: the await it
\* is suspended at; pos: the Position a close works on; reason: the close
\* reason; attempt: closePosition's attempt counter; px: an entry or limit
\* or exit price; target: an entry's nextLevel; doc: the document a pending
\* writeFile carries; ok: whether start()'s balance step succeeded; disk0:
\* the state file's content when start() was called.  While an entry awaits
\* getOpenLimitOrders, attempt is the number of LIMIT orders resting on its side.
Task(k, pc, pos, reason, attempt, px, target, doc, ok, disk0) ==
    [k |-> k, pc |-> pc, pos |-> pos, reason |-> reason, attempt |-> attempt,
     px |-> px, target |-> target, doc |-> doc, ok |-> ok, disk0 |-> disk0]

InFlight == BagToSet(tasks)
Spawn(t) == tasks (+) SetToBag({t})
Finish(t) == tasks (-) SetToBag({t})
Become(t, u) == (tasks (-) SetToBag({t})) (+) SetToBag({u})
\* how many tasks of the kinds ks are in flight
Count(ks) ==
    LET S == {t \in InFlight : t.k \in ks}
    IN  IF S = {} THEN 0 ELSE BagCardinality([t \in S |-> tasks[t]])
TickKinds == {"open", "close", "trail"}

NoPos == [type |-> "NONE", entryPrice |-> 0, stopLoss |-> 0, takeProfit |-> 0,
          updates |-> <<>>]

(* ========================== PositionManager =========================== *)
\* LONG: entryPrice * 0.9984, SHORT: entryPrice * 1.00167, through fixedNumber
calculateInitialStop(type, entryPrice) ==
    IF type = "LONG" THEN entryPrice - RoundDiv(entryPrice * 16, 10000)
    ELSE entryPrice + RoundDiv(entryPrice * 167, 100000)

\* a trailing stop that follows the price both ways: neither max nor min
calculateTrailingStopLoose(position, currentPrice) ==
    IF position.type = "LONG"
    THEN currentPrice - RoundDiv(currentPrice * 16, 10000)
    ELSE currentPrice + RoundDiv(currentPrice * 16, 10000)

\* stopDistance 0.0016; the stop only moves towards the price
calculateTrailingStop(position, currentPrice) ==
    IF position.type = "LONG"
    THEN Max(currentPrice - RoundDiv(currentPrice * 16, 10000), position.stopLoss)
    ELSE Min(currentPrice + RoundDiv(currentPrice * 16, 10000), position.stopLoss)

\* exit conditions tested in the other order: takeProfit before stopLoss
checkExitTakeProfitFirst(position, currentPrice) ==
    IF position.type = "LONG"
    THEN IF currentPrice >= position.takeProfit
         THEN [shouldClose |-> TRUE, reason |-> "takeProfit"]
         ELSE IF currentPrice <= position.stopLoss
         THEN [shouldClose |-> TRUE, reason |-> "stopLoss"]
         ELSE [shouldClose |-> FALSE, reason |-> "none"]
    ELSE IF currentPrice <= position.takeProfit
         THEN [shouldClose |-> TRUE, reason |-> "takeProfit"]
         ELSE IF currentPrice >= position.stopLoss
         THEN [shouldClose |-> TRUE, reason |-> "stopLoss"]
         ELSE [shouldClose |-> FALSE, reason |-> "none"]

checkExitConditions(position, currentPrice) ==
    IF position.type = "LONG"
    THEN IF currentPrice <= position.stopLoss
         THEN [shouldClose |-> TRUE, reason |-> "stopLoss"]
         ELSE IF currentPrice >= position.takeProfit
         THEN [shouldClose |-> TRUE, reason |-> "takeProfit"]
         ELSE [shouldClose |-> FALSE, reason |-> "none"]
    ELSE IF currentPrice >= position.stopLoss
         THEN [shouldClose |-> TRUE, reason |-> "stopLoss"]
         ELSE IF currentPrice <= position.takeProfit
         THEN [shouldClose |-> TRUE, reason |-> "takeProfit"]
         ELSE [shouldClose |-> FALSE, reason |-> "none"]

\* Math.abs(price - level) / level <= MIN_DISTANCE (0.001)
isLevelHit(price, level) == Abs(price - level) * 1000 <= level

\* the four timeframes' lists, 4h first
Flatten(byTimeframe) ==
    byTimeframe["4h"] \o byTimeframe["1h"] \o byTimeframe["15m"] \o byTimeframe["5m"]
Range(seq) == {seq[i] : i \in DOMAIN seq}

\* a search without the sort: the first level in stored order beyond the price
findNextLevelUnsorted(price, levels, direction) ==
    LET above == {i \in DOMAIN levels : levels[i] > price}
        below == {i \in DOMAIN levels : levels[i] < price}
    IN  IF direction = "up"
        THEN {levels[i] : i \in {j \in above : \A m \in above : j <= m}}
        ELSE {levels[i] : i \in {j \in below : \A m \in below : j <= m}}

\* the nearest level strictly above (up) or strictly below (down) the price,
\* as a set: {} when there is none
findNextLevel(price, levels, direction) ==
    LET above == {l \in Range(levels) : l > price}
        below == {l \in Range(levels) : l < price}
    IN  IF direction = "up"
        THEN {l \in above : \A m \in above : l <= m}
        ELSE {l \in below : \A m \in below : l >= m}

\* the EntrySignal as a set: {} for null
checkEntryConditions(price, levels) ==
    IF levels = Null THEN Null
    ELSE LET allSupports == Flatten(The(levels).holdLevels)
             allResistances == Flatten(The(levels).resistanceLevels)
             nextResistance == findNextLevel(price, allResistances, "up")
             nextSupport == findNextLevel(price, allSupports, "down")
         IN  IF (\E l \in Range(allSupports) : isLevelHit(price, l))
                /\ nextResistance # {}
             THEN {[type |-> "LONG", price |-> price, nextLevel |-> The(nextResistance)]}
             ELSE IF (\E l \in Range(allResistances) : isLevelHit(price, l))
                     /\ nextSupport # {}
             THEN {[type |-> "SHORT", price |-> price, nextLevel |-> The(nextSupport)]}
             ELSE Null

\* the sign of calculatePnL decides isLoss; contractAmount is positive
isLoss(position, exitPrice) ==
    IF position.type = "LONG" THEN exitPrice - position.entryPrice < 0
    ELSE position.entryPrice - exitPrice < 0

\* a LIMIT price offset away from the fill: above market to sell, below to buy
limitPriceAgainstFill(position, currentPrice) ==
    IF position.type = "LONG" THEN currentPrice + RoundDiv(currentPrice * 5, 10000)
    ELSE currentPrice - RoundDiv(currentPrice * 5, 10000)

\* closePosition's LIMIT price: ticker * 0.9995 to sell, * 1.0005 to buy
limitPrice(position, currentPrice) ==
    IF position.type = "LONG" THEN currentPrice - RoundDiv(currentPrice * 5, 10000)
    ELSE currentPrice + RoundDiv(currentPrice * 5, 10000)

\* the venue minimum of openPosition, 0.001, in units of 0.00001
minAmount == 100

\* openPosition without the substitution of the minimum
openPositionUnadjusted(entry, lastPrice) ==
    LET contractAmount == RoundDiv(entry.size * 1000000, lastPrice)
    IN  [order    |-> [type |-> "LIMIT",
                       side |-> IF entry.type = "LONG" THEN "BUY" ELSE "SELL",
                       amount |-> contractAmount, price |-> entry.price],
         position |-> [type |-> entry.type, entryPrice |-> entry.price,
                       size |-> entry.size, contractAmount |-> contractAmount,
                       stopLoss |-> calculateInitialStop(entry.type, entry.price),
                       takeProfit |-> entry.nextLevel]]

\* PositionManager.openPosition once fetchTicker has resolved: the OrderParams
\* it submits and the Position it builds.  Sizes are in units of 0.01 of the
\* quote currency, amounts in units of 0.00001 of the base currency.
openPosition(entry, lastPrice) ==
    LET contractAmount == RoundDiv(entry.size * 1000000, lastPrice)
        side == IF entry.type = "LONG" THEN "BUY" ELSE "SELL"
    IN  IF contractAmount < minAmount
        THEN [order    |-> [type |-> "LIMIT", side |-> side,
                            amount |-> minAmount, price |-> entry.price],
              position |-> [type |-> entry.type, entryPrice |-> entry.price,
                            size |-> RoundDiv(minAmount * entry.price, 1000000),
                            contractAmount |-> minAmount,
                            stopLoss |-> calculateInitialStop(entry.type, entry.price),
                            takeProfit |-> entry.nextLevel]]
        ELSE [order    |-> [type |-> "LIMIT", side |-> side,
                            amount |-> contractAmount, price |-> entry.price],
              position |-> [type |-> entry.type, entryPrice |-> entry.price,
                            size |-> entry.size, contractAmount |-> contractAmount,
                            stopLoss |-> calculateInitialStop(entry.type, entry.price),
                            takeProfit |-> entry.nextLevel]]

\* the OrderParams closePosition submits: a LIMIT order at the offset price of
\* the current ticker, or a MARKET order, which carries no price
closeOrderParams(position, type, currentPrice) ==
    [type |-> type,
     side |-> IF position.type = "LONG" THEN "SELL" ELSE "BUY",
     amount |-> position.contractAmount,
     price |-> IF type = "LIMIT" THEN limitPrice(position, currentPrice) ELSE 0,
     reduceOnly |-> TRUE]

(* ============================ RiskManager ============================= *)
\* a gate that lets one loss too many through: > where the code has >=
canOpenPositionOffByOne == ~(dailyLosses > maxDailyLosses)
\* what canOpenPosition() returns: the count is compared first
canOpenPosition == ~(dailyLosses >= maxDailyLosses)
\* lastLossDate is set and is not today
NewDay == lastLossDate # Null /\ The(lastLossDate) # today
\* a canOpenPosition() that rolls the day over before it compares the count
canOpenPositionEffectEager ==
    IF NewDay
    THEN dailyLosses' = 0 /\ lastLossDate' = Null
    ELSE UNCHANGED <<dailyLosses, lastLossDate>>
\* what a canOpenPosition() call leaves in the RiskManager: the rollover is
\* reached only when the count was below the limit
canOpenPositionEffect ==
    IF canOpenPosition /\ NewDay
    THEN dailyLosses' = 0 /\ lastLossDate' = Null
    ELSE UNCHANGED <<dailyLosses, lastLossDate>>
\* a handleLoss that counts on over midnight
handleLossNoRollover ==
    /\ dailyLosses' = dailyLosses + 1
    /\ lastLossDate' = Some(today)
\* handleLoss: 1 on the first loss of a day, one more on a later one
handleLoss ==
    /\ dailyLosses' = IF lastLossDate = Null \/ The(lastLossDate) # today
                      THEN 1 ELSE dailyLosses + 1
    /\ lastLossDate' = Some(today)

(* ============================= Init =================================== *)
\* the constructors' values
Constructed ==
    /\ isRunning = FALSE /\ isOpeningPosition = FALSE
    /\ levelTimers = 0 /\ tasks = EmptyBag /\ last = Quiet
    /\ currentPosition = Null /\ currentStakePercentage = InitialStake
    /\ accountBalance = Null /\ lastLevels = Null /\ lastUpdate = Null
    /\ dailyLosses = 0 /\ lastLossDate = Null /\ today = 0
    /\ ws = 0 /\ sockets = [s \in 1..MaxSockets |-> "free"]
    /\ reconnectAttempts = 0 /\ reconnecting = 0 /\ pingInterval = FALSE
    /\ stopReturned = FALSE
\* the state file is absent or left by an earlier run
Init ==
    /\ Constructed
    /\ disk \in {Null} \cup {Some(d) : d \in PersistedDocs}

Blank(k, pc) == Task(k, pc, NoPos, "none", 0, 0, 0, Null, TRUE, Null)
\* the document save() would write now
Doc == Serialize(currentPosition, currentStakePercentage, accountBalance, lastLevels,
                 lastUpdate)

(* ===================== BinanceConnector: the stream =================== *)
Streaming == \E s \in 1..MaxSockets : sockets[s] = "open"
\* sockets alive plus reconnects pending: the streams that will deliver ticks
Streams == Cardinality({s \in 1..MaxSockets : sockets[s] # "free"}) + reconnecting
FreeSocket == CHOOSE s \in 1..MaxSockets :
                 sockets[s] = "free" /\ \A r \in 1..(s - 1) : sockets[r] # "free"

\* startPriceStream: this.ws = new WebSocket(url), with its four handlers
startPriceStream ==
    /\ ws' = FreeSocket
    /\ sockets' = [sockets EXCEPT ![FreeSocket] = "connecting"]

\* stopPriceStream: clearPingInterval, ws.close(), ws = null; nothing when ws is null
stopPriceStream ==
    IF ws # 0
    THEN /\ pingInterval' = FALSE
         /\ sockets' = [sockets EXCEPT ![ws] =
                           IF @ \in {"connecting", "open"} THEN "closing" ELSE @]
         /\ ws' = 0
    ELSE UNCHANGED <<ws, sockets, pingInterval>>

\* ws.on('open'): the attempt counter is reset and the keepalive started
SocketOpen(s) ==
    /\ sockets[s] = "connecting"
    /\ sockets' = [sockets EXCEPT ![s] = "open"]
    /\ reconnectAttempts' = 0
    /\ pingInterval' = TRUE
    /\ UNCHANGED <<ws, reconnecting, engineVars, stateVars, disk, riskVars, today,
                   stopReturned>>
    /\ last' = Quiet

\* handleDisconnect up to its sleep: one more attempt, or the terminal error
handleDisconnect ==
    IF reconnectAttempts < maxReconnectAttempts
    THEN reconnectAttempts' = reconnectAttempts + 1 /\ reconnecting' = reconnecting + 1
    ELSE UNCHANGED <<reconnectAttempts, reconnecting>>

\* wsEmitter is a private EventEmitter and nothing ever attaches a listener to
\* it, so its emit('error', e) throws e
WsEmitterListeners == {}
wsEmitErrorThrows == "error" \notin WsEmitterListeners
\* what the host sees of a failure the connector reports on wsEmitter from a
\* socket handler or from handleDisconnect
StreamFailed(cause) ==
    [event |-> "error", cause |-> cause,
     rejected |-> IF wsEmitErrorThrows THEN "stream" ELSE "none"]

\* ws.on('close'), after the peer dropped an open socket or after ws.close():
\* clearPingInterval, then handleDisconnect, whose last branch reports the
\* exhausted attempts on wsEmitter
SocketClose(s) ==
    /\ sockets[s] \in {"open", "closing"}
    /\ sockets' = [sockets EXCEPT ![s] = "free"]
    /\ pingInterval' = FALSE
    /\ handleDisconnect
    /\ UNCHANGED <<ws, engineVars, stateVars, disk, riskVars, today, stopReturned>>
    /\ last' = IF reconnectAttempts < maxReconnectAttempts THEN Quiet
               ELSE StreamFailed("maxReconnect")

\* ws.on('error'), a connection attempt that fails: the handler reports on
\* wsEmitter first and calls handleDisconnect after it.  When the emit throws,
\* the handler ends there and the socket's close event is not delivered;
\* otherwise handleDisconnect runs now and again on the close event.
SocketError(s) ==
    /\ sockets[s] = "connecting"
    /\ IF wsEmitErrorThrows
       THEN /\ sockets' = [sockets EXCEPT ![s] = "free"]
            /\ UNCHANGED <<reconnectAttempts, reconnecting>>
       ELSE /\ sockets' = [sockets EXCEPT ![s] = "closing"]
            /\ handleDisconnect
    /\ UNCHANGED <<ws, pingInterval, engineVars, stateVars, disk, riskVars, today,
                   stopReturned>>
    /\ last' = StreamFailed("socket")

\* handleDisconnect after its sleep: startPriceStream again
Reconnect ==
    /\ reconnecting > 0
    /\ reconnecting' = reconnecting - 1
    /\ startPriceStream
    /\ UNCHANGED <<reconnectAttempts, pingInterval, engineVars, stateVars, disk,
                   riskVars, today, stopReturned>>
    /\ last' = Quiet

(* ==================== TradingStateManager.load ======================== *)
\* a state file that cannot be read or does not parse
Unreadable == [unreadable |-> TRUE]
\* a load() that takes a missing file for a failure as well
loadThrowsOnMissing == disk = Null \/ The(disk) = Unreadable
\* readFile or JSON.parse throws something other than ENOENT: load() rethrows
loadThrows == disk # Null /\ The(disk) = Unreadable
\* a missing file leaves the fields as they are; a document replaces them
load ==
    IF disk = Null
    THEN UNCHANGED stateVars
    ELSE /\ currentPosition' = The(disk).currentPosition
         /\ currentStakePercentage' = The(disk).currentStakePercentage
         /\ accountBalance' = The(disk).accountBalance
         /\ lastLevels' = The(disk).lastLevels
         /\ lastUpdate' = The(disk).lastUpdate

(* ======================= TradingEngine.start ========================== *)
\* start() while not running, up to `await this.exchange.initialize()`
StartCall ==
    /\ ~isRunning
    /\ Count({"start"}) < MaxCalls
    /\ levelTimers + Count({"start"}) < MaxTimers
    /\ Streams + Count({"start"}) < MaxSockets
    /\ tasks' = Spawn([Blank("start", "init") EXCEPT !.disk0 = disk])
    /\ stopReturned' = FALSE
    /\ UNCHANGED <<isRunning, isOpeningPosition, levelTimers, stateVars, disk,
                   riskVars, today, connVars>>
    /\ last' = Quiet

\* initialize() resolves: on to fetchBalance; or rejects: start() emits error and throws
StartInit(t) ==
    /\ t.k = "start" /\ t.pc = "init"
    /\ \/ tasks' = Become(t, [t EXCEPT !.pc = "balance"]) /\ last' = Quiet
       \/ tasks' = Finish(t) /\ last' = Rethrown("start", "initialize")
    /\ UNCHANGED <<isRunning, isOpeningPosition, levelTimers, stateVars, disk,
                   riskVars, today, connVars, stopReturned>>

\* fetchBalance() resolves: updateAccountBalance sets the balance and saves;
\* or rejects: the inner catch logs it and start() goes on to load()
StartBalance(t) ==
    /\ t.k = "start" /\ t.pc = "balance"
    /\ \/ \E b \in Balances :
            /\ accountBalance' = Some(b)
            /\ tasks' = Become(t, [t EXCEPT !.pc = "balanceSave",
                   !.doc = Some(Serialize(currentPosition, currentStakePercentage,
                                          Some(b), lastLevels, lastUpdate))])
       \/ /\ tasks' = Become(t, [t EXCEPT !.pc = "load", !.ok = FALSE])
          /\ UNCHANGED accountBalance
    /\ UNCHANGED <<isRunning, isOpeningPosition, levelTimers, currentPosition,
                   currentStakePercentage, lastLevels, lastUpdate, disk, riskVars, today,
                   connVars, stopReturned>>
    /\ last' = Quiet

\* updateAccountBalance's writeFile resolves
StartBalanceSaved(t) ==
    /\ t.k = "start" /\ t.pc = "balanceSave"
    /\ disk' = t.doc
    /\ tasks' = Become(t, [t EXCEPT !.pc = "load", !.doc = Null])
    /\ UNCHANGED <<isRunning, isOpeningPosition, levelTimers, stateVars,
                   riskVars, today, connVars, stopReturned>>
    /\ last' = Quiet

\* loadInitialState: state.load() reads the file, then updateLevels() begins
StartLoad(t) ==
    /\ t.k = "start" /\ t.pc = "load"
    /\ IF loadThrows
       THEN /\ tasks' = Finish(t)
            /\ last' = Rethrown("start", "load")
            /\ UNCHANGED stateVars
       ELSE /\ load
            /\ tasks' = Become(t, [t EXCEPT !.pc = "levels"])
            /\ last' = Quiet
    /\ UNCHANGED <<isRunning, isOpeningPosition, levelTimers, disk,
                   riskVars, today, connVars, stopReturned>>

\* the rest of start() once loadInitialState has returned: isRunning = true,
\* startPriceStream(), scheduleLevelUpdates(), emit started
StartFinish(t) ==
    /\ isRunning' = TRUE
    /\ startPriceStream
    /\ levelTimers' = levelTimers + 1
    /\ tasks' = Finish(t)
    /\ UNCHANGED <<isOpeningPosition, reconnectAttempts, reconnecting, pingInterval,
                   riskVars, today, stopReturned>>
    /\ last' = Emitted("started")

\* updateLevels() inside start(): analyzeLevels resolves and state.updateLevels
\* saves; or it rejects: the catch emits error and start() goes on
StartLevels(t) ==
    /\ t.k = "start" /\ t.pc = "levels"
    /\ \/ \E l \in LevelSnapshots :
            /\ lastLevels' = Some(l)
            /\ lastUpdate' = Some(today)
            /\ tasks' = Become(t, [t EXCEPT !.pc = "levelsSave",
                   !.doc = Some(Serialize(currentPosition, currentStakePercentage,
                                          accountBalance, Some(l), Some(today)))])
            /\ UNCHANGED <<isRunning, isOpeningPosition, levelTimers, currentPosition,
                           currentStakePercentage, accountBalance, disk, riskVars,
                           today, connVars, stopReturned>>
            /\ last' = Emitted("levelUpdate")
       \/ /\ ~emitErrorThrows
          /\ StartFinish(t)
          /\ UNCHANGED <<stateVars, disk>>
       \/ /\ emitErrorThrows
          /\ tasks' = Finish(t)
          /\ last' = Rethrown("start", "analyzeLevels")
          /\ UNCHANGED <<isRunning, isOpeningPosition, levelTimers, stateVars, disk,
                         riskVars, today, connVars, stopReturned>>

\* state.updateLevels' writeFile resolves and start() runs to its end
StartLevelsSaved(t) ==
    /\ t.k = "start" /\ t.pc = "levelsSave"
    /\ disk' = t.doc
    /\ StartFinish(t)
    /\ UNCHANGED stateVars

(* ======================== TradingEngine.stop ========================== *)
\* stop() while running, up to `await this.state.save()`
StopCall ==
    /\ isRunning
    /\ Count({"stop"}) < MaxCalls
    /\ isRunning' = FALSE
    /\ isOpeningPosition' = FALSE
    /\ stopPriceStream
    /\ tasks' = Spawn([Blank("stop", "save") EXCEPT !.doc = Some(Doc)])
    /\ UNCHANGED <<levelTimers, stateVars, disk, riskVars, today,
                   reconnectAttempts, reconnecting, stopReturned>>
    /\ last' = Quiet

\* save() resolves: emit stopped, stop() returns
StopSaved(t) ==
    /\ t.k = "stop" /\ t.pc = "save"
    /\ disk' = t.doc
    /\ tasks' = Finish(t)
    /\ stopReturned' = TRUE
    /\ UNCHANGED <<isRunning, isOpeningPosition, levelTimers, stateVars,
                   riskVars, today, connVars>>
    /\ last' = Emitted("stopped")

\* a stop() whose catch block swallows the failure and goes on to emit stopped
StopSaveFailedSwallowed(t) ==
    /\ t.k = "stop" /\ t.pc = "save"
    /\ tasks' = Finish(t)
    /\ stopReturned' = TRUE
    /\ UNCHANGED <<isRunning, isOpeningPosition, levelTimers, stateVars, disk,
                   riskVars, today, connVars>>
    /\ last' = Emitted("stopped")

\* save() rejects (writeFile fails, the file is left as it was): the catch
\* block emits error and rethrows, stop() rejects and stopped is not emitted
StopSaveFailed(t) ==
    /\ t.k = "stop" /\ t.pc = "save"
    /\ tasks' = Finish(t)
    /\ UNCHANGED <<isRunning, isOpeningPosition, levelTimers, stateVars, disk,
                   riskVars, today, connVars, stopReturned>>
    /\ last' = Rethrown("stop", "save")

(* ================= TradingEngine: the level-refresh timer ============= *)
\* an interval of scheduleLevelUpdates fires while running: updateLevels() begins
RefreshFire ==
    /\ levelTimers > 0 /\ isRunning
    /\ Count({"refresh"}) < MaxCalls
    /\ tasks' = Spawn(Blank("refresh", "levels"))
    /\ UNCHANGED <<isRunning, isOpeningPosition, levelTimers, stateVars, disk,
                   riskVars, today, connVars, stopReturned>>
    /\ last' = Quiet

\* analyzeLevels resolves and state.updateLevels saves; or rejects: emit error
\* updateLevels as it would be if a failed analysis dropped the cached snapshot
RefreshLevelsDropsSnapshot(t) ==
    /\ t.k = "refresh" /\ t.pc = "levels"
    /\ \/ \E l \in LevelSnapshots :
            /\ lastLevels' = Some(l)
            /\ lastUpdate' = Some(today)
            /\ tasks' = Become(t, [t EXCEPT !.pc = "save",
                   !.doc = Some(Serialize(currentPosition, currentStakePercentage,
                                          accountBalance, Some(l), Some(today)))])
            /\ last' = Emitted("levelUpdate")
       \/ /\ tasks' = Finish(t)
          /\ last' = Failed("refresh", "analyzeLevels")
          /\ lastLevels' = Null
          /\ lastUpdate' = Null
    /\ UNCHANGED <<isRunning, isOpeningPosition, levelTimers, currentPosition,
                   currentStakePercentage, accountBalance, disk, riskVars, today,
                   connVars, stopReturned>>

RefreshLevels(t) ==
    /\ t.k = "refresh" /\ t.pc = "levels"
    /\ \/ \E l \in LevelSnapshots :
            /\ lastLevels' = Some(l)
            /\ lastUpdate' = Some(today)
            /\ tasks' = Become(t, [t EXCEPT !.pc = "save",
                   !.doc = Some(Serialize(currentPosition, currentStakePercentage,
                                          accountBalance, Some(l), Some(today)))])
            /\ last' = Emitted("levelUpdate")
       \/ /\ tasks' = Finish(t)
          /\ last' = Failed("refresh", "analyzeLevels")
          /\ UNCHANGED <<lastLevels, lastUpdate>>
    /\ UNCHANGED <<isRunning, isOpeningPosition, levelTimers, currentPosition,
                   currentStakePercentage, accountBalance, disk, riskVars, today,
                   connVars, stopReturned>>

RefreshSaved(t) ==
    /\ t.k = "refresh" /\ t.pc = "save"
    /\ disk' = t.doc
    /\ tasks' = Finish(t)
    /\ UNCHANGED <<isRunning, isOpeningPosition, levelTimers, stateVars,
                   riskVars, today, connVars, stopReturned>>
    /\ last' = Quiet

(* ================ TradingEngine: a tick while running ================= *)
\* The stream's callback: handlePrice and handlePriceUpdate run to their first
\* await.  A tick that changes nothing (not running, the guard set, no entry
\* signal and no rollover, a stop that does not move) is a stuttering step; a
\* tick the RiskManager refuses is a step of its own, TickRefused.
\* a callback without the isRunning checks of handlePrice and handlePriceUpdate
DeliveringWhenStopped == Streaming
Delivering == isRunning /\ Streaming
TickRoom == Count(TickKinds) < MaxInFlight

\* a Position is stored and checkExitConditions says close: closePosition(reason)
\* begins, attempt 1, awaiting fetchTicker
TickClose(price) ==
    /\ Delivering /\ TickRoom
    /\ currentPosition # Null
    /\ checkExitConditions(The(currentPosition), price).shouldClose
    /\ tasks' = Spawn([Blank("close", "ticker") EXCEPT
                          !.pos = The(currentPosition),
                          !.reason = checkExitConditions(The(currentPosition), price).reason,
                          !.attempt = 1])
    /\ UNCHANGED <<isRunning, isOpeningPosition, levelTimers, stateVars, disk,
                   riskVars, today, connVars, stopReturned>>
    /\ last' = Quiet

\* a store that keeps the Position it held next to the new one
setCurrentPositionKeepingOld(position) == currentPosition' = currentPosition \cup {position}
\* state.setCurrentPosition: the field is assigned, then save() is awaited
setCurrentPosition(position) == currentPosition' = Some(position)
\* state.clearCurrentPosition
clearCurrentPosition == currentPosition' = Null

\* an updateStopLoss that moves the stop without a record of it
updateStopLossUnrecorded(position, newStop) == [position EXCEPT !.stopLoss = newStop]
\* updateStopLoss up to its save: one record {oldValue, newValue} is pushed to
\* the Position's updates (its timestamp and type are left out), then the
\* stop is assigned
updateStopLoss(position, newStop) ==
    [position EXCEPT
        !.updates = Append(@, [oldValue |-> position.stopLoss, newValue |-> newStop]),
        !.stopLoss = newStop]

\* a Position is stored and no exit condition holds: updateTrailingStop; a new
\* stop goes through updateStopLoss and setCurrentPosition, which saves
TickTrail(price) ==
    /\ Delivering /\ TickRoom
    /\ currentPosition # Null
    /\ ~checkExitConditions(The(currentPosition), price).shouldClose
    /\ LET position == The(currentPosition)
           newStop == calculateTrailingStop(position, price)
       IN  /\ newStop # position.stopLoss
           /\ setCurrentPosition(updateStopLoss(position, newStop))
           /\ tasks' = Spawn([Blank("trail", "save") EXCEPT
                  !.doc = Some(Serialize(Some(updateStopLoss(position, newStop)),
                                         currentStakePercentage, accountBalance,
                                         lastLevels, lastUpdate))])
    /\ UNCHANGED <<isRunning, isOpeningPosition, levelTimers, currentStakePercentage,
                   accountBalance, lastLevels, lastUpdate,
                   disk, riskVars, today, connVars,
                   stopReturned>>
    /\ last' = Quiet

\* checkForNewPosition reaches the RiskManager: no Position, no opening in progress
AtGate == Delivering /\ currentPosition = Null /\ ~isOpeningPosition

\* what the engine did last was to return from a tick at the RiskManager's no
Refused == [event |-> "none", cause |-> "riskGate", rejected |-> "none"]
\* canOpenPosition() returns false: checkForNewPosition logs at debug level
\* and returns
TickRefused(price) ==
    /\ AtGate
    /\ ~canOpenPosition
    /\ canOpenPositionEffect
    /\ UNCHANGED <<engineVars, stateVars, disk, today, connVars, stopReturned>>
    /\ last' = Refused

\* canOpenPosition() returns true (a rollover may reset the counter) and
\* checkEntryConditions gives no signal
TickNoEntry(price) ==
    /\ AtGate
    /\ canOpenPosition
    /\ checkEntryConditions(price, lastLevels) = Null
    /\ canOpenPositionEffect
    /\ UNCHANGED <<engineVars, stateVars, disk, today, connVars, stopReturned>>
    /\ last' = Quiet

\* canOpenPosition() returns true and there is a signal: openPosition(entry)
\* sets the guard and awaits positionManager.openPosition, which asks the
\* exchange for the resting LIMIT orders on the entry's side
TickOpen(price) ==
    /\ AtGate /\ TickRoom
    /\ canOpenPosition
    /\ checkEntryConditions(price, lastLevels) # Null
    /\ canOpenPositionEffect
    /\ isOpeningPosition' = TRUE
    /\ LET entry == The(checkEntryConditions(price, lastLevels))
       IN  \E n \in OpenLimitOrders :
             tasks' = Spawn([Blank("open", "limits") EXCEPT
                              !.attempt = n,
                              !.pos = [type |-> entry.type, entryPrice |-> entry.price,
                                       stopLoss |-> 0, takeProfit |-> entry.nextLevel,
                                       updates |-> <<>>]])
    /\ UNCHANGED <<isRunning, levelTimers, stateVars, disk, today, connVars,
                   stopReturned>>
    /\ last' = Quiet

(* ============ TradingEngine.openPosition, PositionManager.openPosition === *)
\* openLimitOrders.length >= 4
TooManyOpenLimitOrders(n) == n >= maxOpenLimitOrders

\* what getOpenLimitOrders can resolve with when n orders rest on the side:
\* the n orders, or [] from its catch block when fetchOpenOrders has failed
ReportedOpenLimitOrders(n) == {n, 0}

\* getOpenLimitOrders resolves with fewer than 4 orders: on to fetchTicker
OpenLimits(t) ==
    /\ t.k = "open" /\ t.pc = "limits"
    /\ \E reported \in ReportedOpenLimitOrders(t.attempt) :
          ~TooManyOpenLimitOrders(reported)
    /\ tasks' = Become(t, [t EXCEPT !.pc = "ticker", !.attempt = 0])
    /\ UNCHANGED <<isRunning, isOpeningPosition, levelTimers, stateVars, disk,
                   riskVars, today, connVars, stopReturned>>
    /\ last' = Quiet

\* fetchTicker resolves: the amount is sized and the LIMIT entry order submitted
OpenTicker(t) ==
    /\ t.k = "open" /\ t.pc = "ticker"
    /\ tasks' = Become(t, [t EXCEPT !.pc = "order"])
    /\ UNCHANGED <<isRunning, isOpeningPosition, levelTimers, stateVars, disk,
                   riskVars, today, connVars, stopReturned>>
    /\ last' = Quiet

\* what PositionManager.openPosition throws at each await
OpenFailure(pc) ==
    CASE pc = "limits" -> "openLimitOrders"
      [] pc = "ticker" -> "fetchTicker"
      [] pc = "order" -> "createOrder"

\* openPosition as it would be if a rejected entry order were submitted again
OpenFailedRetries(t) ==
    /\ t.k = "open" /\ t.pc \in {"limits", "ticker", "order"}
    /\ t.pc = "limits" => \E reported \in ReportedOpenLimitOrders(t.attempt) :
                             TooManyOpenLimitOrders(reported)
    /\ IF t.pc = "order"
       THEN /\ tasks' = Become(t, [t EXCEPT !.pc = "order"])
            /\ UNCHANGED isOpeningPosition
       ELSE /\ tasks' = Finish(t)
            /\ isOpeningPosition' = FALSE
    /\ UNCHANGED <<isRunning, levelTimers, stateVars, disk, riskVars, today,
                   connVars, stopReturned>>
    /\ last' = Failed("tick", OpenFailure(t.pc))

\* getOpenLimitOrders resolves with 4 or more orders and openPosition throws,
\* or fetchTicker or createOrder rejects: the engine's catch emits error, its
\* finally clears the guard
OpenFailed(t) ==
    /\ t.k = "open" /\ t.pc \in {"limits", "ticker", "order"}
    /\ t.pc = "limits" => \E reported \in ReportedOpenLimitOrders(t.attempt) :
                             TooManyOpenLimitOrders(reported)
    /\ isOpeningPosition' = FALSE
    /\ tasks' = Finish(t)
    /\ UNCHANGED <<isRunning, levelTimers, stateVars, disk, riskVars, today,
                   connVars, stopReturned>>
    /\ last' = Failed("tick", OpenFailure(t.pc))

\* createOrder resolves: the Position is built and state.setCurrentPosition saves
OpenOrder(t) ==
    /\ t.k = "open" /\ t.pc = "order"
    /\ LET position == [t.pos EXCEPT
                           !.stopLoss = calculateInitialStop(t.pos.type, t.pos.entryPrice)]
       IN  /\ setCurrentPosition(position)
           /\ tasks' = Become(t, [t EXCEPT !.pc = "save", !.pos = position,
                  !.doc = Some(Serialize(Some(position), currentStakePercentage,
                                         accountBalance, lastLevels, lastUpdate))])
    /\ UNCHANGED <<isRunning, isOpeningPosition, levelTimers, currentStakePercentage,
                   accountBalance, lastLevels, lastUpdate,
                   disk, riskVars, today, connVars,
                   stopReturned>>
    /\ last' = Quiet

\* the save resolves: emit positionOpened; finally clears the guard
OpenSaved(t) ==
    /\ t.k = "open" /\ t.pc = "save"
    /\ disk' = t.doc
    /\ isOpeningPosition' = FALSE
    /\ tasks' = Finish(t)
    /\ UNCHANGED <<isRunning, levelTimers, stateVars, riskVars, today, connVars,
                   stopReturned>>
    /\ last' = Emitted("positionOpened")

\* the trailing stop's save resolves: emit stopLossUpdated
TrailSaved(t) ==
    /\ t.k = "trail" /\ t.pc = "save"
    /\ disk' = t.doc
    /\ tasks' = Finish(t)
    /\ UNCHANGED <<isRunning, isOpeningPosition, levelTimers, stateVars,
                   riskVars, today, connVars, stopReturned>>
    /\ last' = Emitted("stopLossUpdated")

(* =========== PositionManager.closePosition, TradingEngine.closePosition == *)
\* a failed LIMIT attempt: sleep 2 s if attempts remain, else the first
\* MARKET order is submitted
\* the LIMIT loop as it would be with a ceiling of one attempt
AfterLimitFailureToMarket(t) == [t EXCEPT !.pc = "market"]

AfterLimitFailure(t) ==
    IF t.attempt < maxRetries THEN [t EXCEPT !.pc = "sleep"]
    ELSE [t EXCEPT !.pc = "market"]

\* closePosition as it would be if it reported the entry price as exit price
CloseReturnedAtEntry(t, exitPrice) ==
    /\ clearCurrentPosition
    /\ tasks' = Become(t, [t EXCEPT !.pc = "save", !.px = t.pos.entryPrice,
           !.doc = Some(Serialize(Null, currentStakePercentage, accountBalance,
                                  lastLevels, lastUpdate))])

\* closePosition has returned its TradeResult with this exit price:
\* clearCurrentPosition assigns null and saves
CloseReturned(t, exitPrice) ==
    /\ clearCurrentPosition
    /\ tasks' = Become(t, [t EXCEPT !.pc = "save", !.px = exitPrice,
           !.doc = Some(Serialize(Null, currentStakePercentage, accountBalance,
                                  lastLevels, lastUpdate))])

\* fetchTicker resolves and the LIMIT close order is submitted at the offset
\* price; or it rejects, which fails the attempt
CloseTicker(t) ==
    /\ t.k = "close" /\ t.pc = "ticker"
    /\ \/ \E p \in Fills :
            tasks' = Become(t, [t EXCEPT !.pc = "limit", !.px = limitPrice(t.pos, p)])
       \/ tasks' = Become(t, AfterLimitFailure(t))
    /\ UNCHANGED <<isRunning, isOpeningPosition, levelTimers, stateVars, disk,
                   riskVars, today, connVars, stopReturned>>
    /\ last' = Quiet

\* the exchange accepts the LIMIT close order: exitPrice is the order's price
CloseLimitAccepted(t) ==
    /\ t.k = "close" /\ t.pc = "limit"
    /\ CloseReturned(t, t.px)
    /\ UNCHANGED <<isRunning, isOpeningPosition, levelTimers, currentStakePercentage,
                   accountBalance, lastLevels, lastUpdate,
                   disk, riskVars, today, connVars,
                   stopReturned>>
    /\ last' = Quiet

\* the exchange rejects the LIMIT close order
CloseLimitRejected(t) ==
    /\ t.k = "close" /\ t.pc = "limit"
    /\ tasks' = Become(t, AfterLimitFailure([t EXCEPT !.px = 0]))
    /\ UNCHANGED <<isRunning, isOpeningPosition, levelTimers, stateVars, disk,
                   riskVars, today, connVars, stopReturned>>
    /\ last' = Quiet

\* the 2 s delay ends: the next LIMIT attempt begins with fetchTicker
CloseSleep(t) ==
    /\ t.k = "close" /\ t.pc = "sleep"
    /\ tasks' = Become(t, [t EXCEPT !.pc = "ticker", !.attempt = t.attempt + 1])
    /\ UNCHANGED <<isRunning, isOpeningPosition, levelTimers, stateVars, disk,
                   riskVars, today, connVars, stopReturned>>
    /\ last' = Quiet

\* the exchange accepts the MARKET close order, filled at some price
CloseMarketAccepted(t) ==
    /\ t.k = "close" /\ t.pc = "market"
    /\ \E fill \in Fills : CloseReturned(t, fill)
    /\ UNCHANGED <<isRunning, isOpeningPosition, levelTimers, currentStakePercentage,
                   accountBalance, lastLevels, lastUpdate,
                   disk, riskVars, today, connVars,
                   stopReturned>>
    /\ last' = Quiet

\* a MARKET loop with a ceiling of one: the rejection ends closePosition
CloseMarketGivesUp(t) ==
    /\ t.k = "close" /\ t.pc = "market"
    /\ tasks' = Finish(t)
    /\ UNCHANGED <<isRunning, isOpeningPosition, levelTimers, stateVars, disk,
                   riskVars, today, connVars, stopReturned>>
    /\ last' = Quiet

\* the exchange rejects the MARKET close order: sleep 2 s and try again
CloseMarketRejected(t) ==
    /\ t.k = "close" /\ t.pc = "market"
    /\ tasks' = Become(t, [t EXCEPT !.pc = "marketSleep"])
    /\ UNCHANGED <<isRunning, isOpeningPosition, levelTimers, stateVars, disk,
                   riskVars, today, connVars, stopReturned>>
    /\ last' = Quiet

\* the delay ends: the next MARKET order is submitted; there is no ceiling
CloseMarketSleep(t) ==
    /\ t.k = "close" /\ t.pc = "marketSleep"
    /\ tasks' = Become(t, [t EXCEPT !.pc = "market"])
    /\ UNCHANGED <<isRunning, isOpeningPosition, levelTimers, stateVars, disk,
                   riskVars, today, connVars, stopReturned>>
    /\ last' = Quiet

\* clearCurrentPosition's save resolves: emit positionClosed, and a loss goes
\* to riskManager.handleLoss()
CloseSaved(t) ==
    /\ t.k = "close" /\ t.pc = "save"
    /\ disk' = t.doc
    /\ tasks' = Finish(t)
    /\ IF isLoss(t.pos, t.px) THEN handleLoss
       ELSE UNCHANGED <<dailyLosses, lastLossDate>>
    /\ UNCHANGED <<isRunning, isOpeningPosition, levelTimers, stateVars, today,
                   connVars, stopReturned>>
    /\ last' = Emitted("positionClosed")

(* ============================ the calendar ============================ *)
\* midnight passes
NextDay ==
    /\ today < MaxDay
    /\ today' = today + 1
    /\ UNCHANGED <<engineVars, stateVars, disk, riskVars, connVars, stopReturned>>
    /\ last' = Quiet

(* ================ TradingStateManager.adjustStakePercentage ============ *)
\* doubling and halving with neither Math.min nor Math.max
adjustStakeUnclamped(stake, isWin) == IF isWin THEN stake * 2 ELSE stake \div 2
\* a win doubles the stake up to 16.0, a loss halves it down to 2; every stake
\* the program can hold halves without a remainder in units of 0.01 %
adjustStakePercentage(stake, isWin) ==
    IF isWin THEN Min(StakeCap, stake * 2) ELSE Max(StakeFloor, stake \div 2)

\* adjustStakePercentage(isWin) is called: the field is assigned, save() awaited
AdjustStake(isWin) ==
    /\ Count({"adjust"}) < MaxInFlight
    /\ currentStakePercentage' = adjustStakePercentage(currentStakePercentage, isWin)
    /\ tasks' = Spawn([Blank("adjust", "save") EXCEPT
           !.doc = Some(Serialize(currentPosition,
                                  adjustStakePercentage(currentStakePercentage, isWin),
                                  accountBalance, lastLevels, lastUpdate))])
    /\ UNCHANGED <<isRunning, isOpeningPosition, levelTimers, currentPosition,
                   accountBalance, lastLevels, lastUpdate,
                   disk, riskVars, today, connVars,
                   stopReturned>>
    /\ last' = Quiet

\* its writeFile resolves
AdjustSaved(t) ==
    /\ t.k = "adjust" /\ t.pc = "save"
    /\ disk' = t.doc
    /\ tasks' = Finish(t)
    /\ UNCHANGED <<isRunning, isOpeningPosition, levelTimers, stateVars,
                   riskVars, today, connVars, stopReturned>>
    /\ last' = Quiet

\* load() is called on the store by itself
LoadCall ==
    /\ disk # Null /\ ~loadThrows
    /\ load
    /\ UNCHANGED <<engineVars, disk, riskVars, today, connVars, stopReturned>>
    /\ last' = Quiet

(* ========================= the whole program ========================== *)
Start ==
    \/ StartCall
    \/ \E t \in InFlight : StartInit(t)
    \/ \E t \in InFlight : StartBalance(t)
    \/ \E t \in InFlight : StartBalanceSaved(t)
    \/ \E t \in InFlight : StartLoad(t)
    \/ \E t \in InFlight : StartLevels(t)
    \/ \E t \in InFlight : StartLevelsSaved(t)
Stop ==
    \/ StopCall
    \/ \E t \in InFlight : StopSaved(t)
    \/ \E t \in InFlight : StopSaveFailed(t)
Refreshing ==
    \/ RefreshFire
    \/ \E t \in InFlight : RefreshLevels(t)
    \/ \E t \in InFlight : RefreshSaved(t)
Ticks ==
    \/ \E price \in Prices : TickClose(price)
    \/ \E price \in Prices : TickTrail(price)
    \/ \E price \in Prices : TickRefused(price)
    \/ \E price \in Prices : TickNoEntry(price)
    \/ \E price \in Prices : TickOpen(price)
Opening ==
    \/ \E t \in InFlight : OpenLimits(t)
    \/ \E t \in InFlight : OpenTicker(t)
    \/ \E t \in InFlight : OpenFailed(t)
    \/ \E t \in InFlight : OpenOrder(t)
    \/ \E t \in InFlight : OpenSaved(t)
Trailing == \E t \in InFlight : TrailSaved(t)
Closing ==
    \/ \E t \in InFlight : CloseTicker(t)
    \/ \E t \in InFlight : CloseLimitAccepted(t)
    \/ \E t \in InFlight : CloseLimitRejected(t)
    \/ \E t \in InFlight : CloseSleep(t)
    \/ \E t \in InFlight : CloseMarketAccepted(t)
    \/ \E t \in InFlight : CloseMarketRejected(t)
    \/ \E t \in InFlight : CloseMarketSleep(t)
    \/ \E t \in InFlight : CloseSaved(t)
Connect == \E s \in 1..MaxSockets : SocketOpen(s)
Disconnect ==
    \/ Reconnect
    \/ \E s \in 1..MaxSockets : SocketClose(s)
    \/ \E s \in 1..MaxSockets : SocketError(s)

\* every handler, timer and event of the program
Next == Start \/ Stop \/ Refreshing \/ Ticks \/ Opening \/ Trailing \/ Closing
        \/ Connect \/ Disconnect \/ NextDay
Spec == Init /\ [][Next]_vars

\* The state space of Spec is the product of every handler's positions.  Each
\* of the next four specifications is Spec with part of the environment held
\* still, so every behaviour of it is a behaviour of Spec.

\* start, stop, the refresh timer and the connection, on a market that sends
\* no trades
NextLifecycle == Start \/ Stop \/ Refreshing \/ Connect \/ Disconnect
SpecLifecycle == Init /\ [][NextLifecycle]_vars

\* one run of the engine on a connection that stays up, closes overlapping
NextTrade == Start \/ Ticks \/ Opening \/ Trailing \/ Closing \/ Connect
SpecTrade == Init /\ [][NextTrade]_vars

\* restarts while entries are in flight, on a market that stays at the entry
\* level: no exit condition is met and no stop moves
EntryTicks ==
    \/ \E price \in QuietPrices : TickNoEntry(price)
    \/ \E price \in QuietPrices : TickOpen(price)
NextGuard == Start \/ Stop \/ EntryTicks \/ Opening \/ Connect
SpecGuard == Init /\ [][NextGuard]_vars

\* one run in which each closePosition call is followed to its end before the
\* next one starts.  Every pending promise settles and every timer fires
\* (weak fairness); the exchange, asked again and again, eventually accepts a
\* MARKET close order (strong fairness).
TicksOneClose ==
    \/ \E price \in Prices : Count({"close"}) = 0 /\ TickClose(price)
    \/ \E price \in Prices : TickTrail(price)
    \/ \E price \in Prices : TickRefused(price)
    \/ \E price \in Prices : TickNoEntry(price)
    \/ \E price \in Prices : TickOpen(price)
NextClose == Start \/ TicksOneClose \/ Opening \/ Trailing \/ Closing \/ Connect
CloseFairness ==
    /\ WF_vars(\E t \in InFlight : CloseTicker(t))
    /\ WF_vars(\E t \in InFlight : CloseLimitAccepted(t) \/ CloseLimitRejected(t))
    /\ WF_vars(\E t \in InFlight : CloseSleep(t))
    /\ WF_vars(\E t \in InFlight : CloseMarketAccepted(t) \/ CloseMarketRejected(t))
    /\ WF_vars(\E t \in InFlight : CloseMarketSleep(t))
    /\ SF_vars(\E t \in InFlight : CloseMarketAccepted(t))
SpecClose == Init /\ [][NextClose]_vars /\ CloseFairness

\* the same run without the fairness, over several days: the RiskManager's
\* counter against the calendar
NextRisk == NextClose \/ NextDay
SpecRisk == Init /\ [][NextRisk]_vars

\* The state file under a run that trails the stop of a stored Position while
\* the refresh timer fires: the saves of both are in flight together.
TrailPrices == Prices \cup {100500}
TrailTicks == \E price \in TrailPrices : TickTrail(price)
NextStore == Start \/ Refreshing \/ TrailTicks \/ Trailing \/ Connect \/ NextDay
SpecStore == Init /\ [][NextStore]_vars

\* The store by itself.  No method of the engine calls adjustStakePercentage,
\* so Spec never takes that step; here the store's methods are called
\* directly, from the defaults or with a document an earlier run has written.
InitStake ==
    /\ Constructed
    /\ disk \in {Null} \cup {Some(Serialize(Null, s, Some(1000), Null, Null)) : s \in PersistedStakes}
NextStake ==
    \/ \E isWin \in BOOLEAN : AdjustStake(isWin)
    \/ \E t \in InFlight : AdjustSaved(t)
    \/ LoadCall
SpecStake == InitStake /\ [][NextStake]_vars

\* One start() and any stop(), over a connection that drops and reconnects,
\* with one tick handler in flight at a time: ticks arrive while the engine
\* runs and, on the sockets stop() leaves behind, after it has stopped.
StartOnce ==
    \/ levelTimers = 0 /\ StartCall
    \/ \E t \in InFlight : StartInit(t)
    \/ \E t \in InFlight : StartBalance(t)
    \/ \E t \in InFlight : StartBalanceSaved(t)
    \/ \E t \in InFlight : StartLoad(t)
    \/ \E t \in InFlight : StartLevels(t)
    \/ \E t \in InFlight : StartLevelsSaved(t)
TicksAlone ==
    \/ \E price \in Prices : Count(TickKinds) = 0 /\ TickClose(price)
    \/ \E price \in Prices : Count(TickKinds) = 0 /\ TickTrail(price)
    \/ \E price \in Prices : TickRefused(price)
    \/ \E price \in Prices : TickNoEntry(price)
    \/ \E price \in Prices : Count(TickKinds) = 0 /\ TickOpen(price)
NextBranch == StartOnce \/ Stop \/ TicksAlone \/ Opening \/ Trailing \/ Closing
              \/ Connect \/ Disconnect
SpecBranch == Init /\ [][NextBranch]_vars

(* ================= PositionManager.checkExitConditions ================= *)
\* checkExitConditions called on its own: prices around a stop at 99.840 and
\* a target at 102.000, Positions of both types with the stop and the target
\* at any of them, also on the wrong side of each other
ExitPrices == {99800, 99840, 100000, 102000}
ExitPositions ==
    [type : {"LONG", "SHORT"}, entryPrice : {100000},
     stopLoss : ExitPrices, takeProfit : ExitPrices]

\* the call and its result: shouldClose in ok, reason in reason
ExitCheck(position, price) ==
    /\ Count({"exit"}) = 0
    /\ tasks' = Spawn([Blank("exit", "returned") EXCEPT
           !.pos = position, !.px = price,
           !.ok = checkExitConditions(position, price).shouldClose,
           !.reason = checkExitConditions(position, price).reason])
    /\ UNCHANGED <<isRunning, isOpeningPosition, levelTimers, stateVars, disk,
                   riskVars, today, connVars, stopReturned>>
    /\ last' = Quiet

\* the caller has used the result
ExitReturn(t) ==
    /\ t.k = "exit"
    /\ tasks' = Finish(t)
    /\ UNCHANGED <<isRunning, isOpeningPosition, levelTimers, stateVars, disk,
                   riskVars, today, connVars, stopReturned>>
    /\ last' = Quiet

InitExit == Constructed /\ disk = Null
NextExit ==
    \/ \E position \in ExitPositions, price \in ExitPrices : ExitCheck(position, price)
    \/ \E t \in InFlight : ExitReturn(t)
SpecExit == InitExit /\ [][NextExit]_vars

(* ================ PositionManager.checkEntryConditions ================= *)
\* checkEntryConditions called on its own, on no levels at all and on
\* snapshots with and without a support near 100.000, a support further below,
\* a resistance near 100.000, and resistances further above in two timeframes
EntryPrices == {99000, 100000, 100100, 102000}
EntrySnapshots ==
    { [holdLevels       |-> [tf \in {"4h", "1h", "15m", "5m"} |->
                               IF tf = "1h" THEN h1 ELSE IF tf = "5m" THEN h2 ELSE <<>>],
       resistanceLevels |-> [tf \in {"4h", "1h", "15m", "5m"} |->
                               IF tf = "4h" THEN r1 ELSE IF tf = "15m" THEN r2 ELSE <<>>]] :
        h1 \in {<<>>, <<100050>>}, h2 \in {<<>>, <<98000>>},
        r1 \in {<<>>, <<105000>>, <<100080>>}, r2 \in {<<>>, <<102000>>} }

\* the call and its result: the arguments in px and doc, the EntrySignal's
\* type, price and nextLevel in pos, with type NONE for null
EntryCheck(price, levels) ==
    /\ Count({"entry"}) = 0
    /\ LET signal == checkEntryConditions(price, levels)
       IN  tasks' = Spawn([Blank("entry", "returned") EXCEPT
               !.px = price, !.doc = levels,
               !.pos = IF signal = Null THEN NoPos
                       ELSE [type |-> The(signal).type, entryPrice |-> The(signal).price,
                             stopLoss |-> 0, takeProfit |-> The(signal).nextLevel]])
    /\ UNCHANGED <<isRunning, isOpeningPosition, levelTimers, stateVars, disk,
                   riskVars, today, connVars, stopReturned>>
    /\ last' = Quiet

\* the caller has used the result
EntryReturn(t) ==
    /\ t.k = "entry"
    /\ tasks' = Finish(t)
    /\ UNCHANGED <<isRunning, isOpeningPosition, levelTimers, stateVars, disk,
                   riskVars, today, connVars, stopReturned>>
    /\ last' = Quiet

NextEntry ==
    \/ \E price \in EntryPrices, levels \in {Null} \cup {Some(l) : l \in EntrySnapshots} :
          EntryCheck(price, levels)
    \/ \E t \in InFlight : EntryReturn(t)
SpecEntry == InitExit /\ [][NextEntry]_vars

(* ========== PositionManager: the orders of openPosition and closePosition === *)
\* The order-building parts of openPosition and closePosition called on their
\* own: entries of sizes from nothing (no balance) over the minimum's worth at
\* 100.000 (0.10) to 4.00, sized at ticker prices beside the entry price;
\* closes of LONG and SHORT Positions of the minimum amount and of a larger one.
EntrySizes == {0, 5, 9, 10, 11, 150, 400}
TickerPrices == Fills \cup {100000}
EntrySignals ==
    [type : {"LONG", "SHORT"}, price : {100000, 102000}, size : EntrySizes,
     nextLevel : {101000}]
ClosedPositions ==
    [type : {"LONG", "SHORT"}, entryPrice : {100000}, stopLoss : {99840},
     takeProfit : {102000}, contractAmount : {minAmount, 1500}]

\* openPosition has sized the entry: the signal's size in target, the signal's
\* type and prices in pos, the ticker in px, the order and Position in doc
SizeEntry(entry, lastPrice) ==
    /\ Count({"size", "closeOrder"}) = 0
    /\ tasks' = Spawn([Blank("size", "returned") EXCEPT
           !.px = lastPrice, !.target = entry.size,
           !.pos = [type |-> entry.type, entryPrice |-> entry.price,
                    stopLoss |-> 0, takeProfit |-> entry.nextLevel],
           !.doc = Some(openPosition(entry, lastPrice))])
    /\ UNCHANGED <<isRunning, isOpeningPosition, levelTimers, stateVars, disk,
                   riskVars, today, connVars, stopReturned>>
    /\ last' = Quiet

\* closePosition has built a close order: the Position in pos, the ticker in
\* px, the OrderParams in doc
BuildCloseOrder(position, type, currentPrice) ==
    /\ Count({"size", "closeOrder"}) = 0
    /\ tasks' = Spawn([Blank("closeOrder", "returned") EXCEPT
           !.px = currentPrice, !.pos = position,
           !.doc = Some(closeOrderParams(position, type, currentPrice))])
    /\ UNCHANGED <<isRunning, isOpeningPosition, levelTimers, stateVars, disk,
                   riskVars, today, connVars, stopReturned>>
    /\ last' = Quiet

\* the exchange has taken the order
OrderTaken(t) ==
    /\ t.k \in {"size", "closeOrder"}
    /\ tasks' = Finish(t)
    /\ UNCHANGED <<isRunning, isOpeningPosition, levelTimers, stateVars, disk,
                   riskVars, today, connVars, stopReturned>>
    /\ last' = Quiet

NextOrders ==
    \/ \E entry \in EntrySignals, lastPrice \in TickerPrices : SizeEntry(entry, lastPrice)
    \/ \E position \in ClosedPositions, type \in {"LIMIT", "MARKET"},
          currentPrice \in TickerPrices : BuildCloseOrder(position, type, currentPrice)
    \/ \E t \in InFlight : OrderTaken(t)
SpecOrders == InitExit /\ [][NextOrders]_vars

(* ===================== RiskManager by itself ========================== *)
\* The RiskManager's two methods called in any order over several days.  Each
\* handleLoss() call leaves a record of its day beside the counter.
LossOn(day) == [Blank("loss", "recorded") EXCEPT !.px = day]
\* the number of handleLoss() calls made on the day
lossesOn(day) == CopiesIn(LossOn(day), tasks)

\* riskManager.handleLoss()
RecordLoss ==
    /\ BagCardinality(tasks) < MaxLosses
    /\ handleLoss
    /\ tasks' = Spawn(LossOn(today))
    /\ UNCHANGED <<isRunning, isOpeningPosition, levelTimers, stateVars, disk,
                   today, connVars, stopReturned>>
    /\ last' = [event |-> "loss", cause |-> "none", rejected |-> "none"]

\* riskManager.canOpenPosition(), whatever it returns
GateCall ==
    /\ canOpenPositionEffect
    /\ UNCHANGED <<engineVars, stateVars, disk, today, connVars, stopReturned>>
    /\ last' = [event |-> "gate", cause |-> "none",
                rejected |-> IF canOpenPosition THEN "none" ELSE "gate"]

\* midnight passes
Midnight ==
    /\ today < LossDays
    /\ today' = today + 1
    /\ UNCHANGED <<engineVars, stateVars, disk, riskVars, connVars, stopReturned>>
    /\ last' = Quiet

NextLosses == RecordLoss \/ GateCall \/ Midnight
SpecLosses == InitExit /\ [][NextLosses]_vars

(* ================== TradingStateManager.load at start ================== *)
\* start(), stop() and restarts over a state file that is missing, holds a
\* document, or cannot be read or parsed
InitLoad ==
    /\ Constructed
    /\ disk \in {Null, Some(Unreadable)} \cup {Some(d) : d \in PersistedDocs}
NextLoad == Start \/ Stop \/ Connect
SpecLoad == InitLoad /\ [][NextLoad]_vars

(* ===================== TradingStateManager.save twice ================== *)
\* The host awaits save() and then save() again. The store is mutated only
\* while no such pair is in flight; the clock runs on.
SaveCall ==
    /\ Count({"save", "adjust"}) = 0
    /\ tasks' = Spawn([Blank("save", "first") EXCEPT !.doc = Some(Doc)])
    /\ UNCHANGED <<isRunning, isOpeningPosition, levelTimers, stateVars, disk,
                   riskVars, today, connVars, stopReturned>>
    /\ last' = Quiet

\* the first writeFile resolves; the second save() serializes the fields anew
SaveFirst(t) ==
    /\ t.k = "save" /\ t.pc = "first"
    /\ disk' = t.doc
    /\ tasks' = Become(t, [t EXCEPT !.pc = "second", !.doc = Some(Doc), !.disk0 = t.doc])
    /\ UNCHANGED <<isRunning, isOpeningPosition, levelTimers, stateVars,
                   riskVars, today, connVars, stopReturned>>
    /\ last' = Quiet

\* the second writeFile resolves
SaveSecond(t) ==
    /\ t.k = "save" /\ t.pc = "second"
    /\ disk' = t.doc
    /\ tasks' = Become(t, [t EXCEPT !.pc = "done", !.doc = Null])
    /\ UNCHANGED <<isRunning, isOpeningPosition, levelTimers, stateVars,
                   riskVars, today, connVars, stopReturned>>
    /\ last' = Quiet

\* the host goes on
SaveReturn(t) ==
    /\ t.k = "save" /\ t.pc = "done"
    /\ tasks' = Finish(t)
    /\ UNCHANGED <<isRunning, isOpeningPosition, levelTimers, stateVars, disk,
                   riskVars, today, connVars, stopReturned>>
    /\ last' = Quiet

NextSave ==
    \/ SaveCall
    \/ \E t \in InFlight : SaveFirst(t)
    \/ \E t \in InFlight : SaveSecond(t)
    \/ \E t \in InFlight : SaveReturn(t)
    \/ \E isWin \in BOOLEAN : Count({"save"}) = 0 /\ AdjustStake(isWin)
    \/ \E t \in InFlight : AdjustSaved(t)
    \/ Count({"save"}) = 0 /\ LoadCall
    \/ NextDay
SpecSave == InitStake /\ [][NextSave]_vars

(* ================ TradingStateManager.save and a crash ================== *)
\* fs.writeFile opens the state file for writing, which empties it, and then
\* writes the text; here every save() of the store takes these two steps, and
\* the process may end at any moment and be started again.
\* the file has been opened: it is empty, or holds the text's beginning
WriteBegin(t) ==
    /\ t.k \in {"save", "adjust"} /\ t.pc \in {"first", "save"}
    /\ disk' = Some(Unreadable)
    /\ tasks' = Become(t, [t EXCEPT !.pc = "writing"])
    /\ UNCHANGED <<isRunning, isOpeningPosition, levelTimers, stateVars,
                   riskVars, today, connVars, stopReturned>>
    /\ last' = Quiet

\* the whole text has been written and writeFile resolves
WriteEnd(t) ==
    /\ t.pc = "writing"
    /\ disk' = t.doc
    /\ tasks' = Finish(t)
    /\ UNCHANGED <<isRunning, isOpeningPosition, levelTimers, stateVars,
                   riskVars, today, connVars, stopReturned>>
    /\ last' = Quiet

\* the process ends while saves are in flight; the next process constructs a
\* new store over the file the old one left
Crash ==
    /\ tasks # EmptyBag
    /\ tasks' = EmptyBag
    /\ currentPosition' = Null /\ currentStakePercentage' = InitialStake
    /\ accountBalance' = Null /\ lastLevels' = Null /\ lastUpdate' = Null
    /\ UNCHANGED <<isRunning, isOpeningPosition, levelTimers, disk, riskVars, today,
                   connVars, stopReturned>>
    /\ last' = [event |-> "crash", cause |-> "none", rejected |-> "none"]

NextCrash ==
    \/ SaveCall
    \/ \E isWin \in BOOLEAN : Count({"save"}) = 0 /\ AdjustStake(isWin)
    \/ \E t \in InFlight : WriteBegin(t)
    \/ \E t \in InFlight : WriteEnd(t)
    \/ Crash
    \/ LoadCall
SpecCrash == InitStake /\ [][NextCrash]_vars

(* ============================ the claims ============================== *)
\* a closePosition call is inside PositionManager.closePosition
ClosePending == \E t \in InFlight : t.k = "close" /\ t.pc # "save"
\* a closePosition call has its TradeResult and has cleared the stored Position
CloseCleared ==
    currentPosition = Null /\ \E t \in InFlight : t.k = "close" /\ t.pc = "save"

\* C1: under SpecClose's fairness every started closePosition call returns a
\* TradeResult and the engine then clears the stored Position, however many
\* LIMIT and MARKET orders are rejected on the way.
C1_CloseTerminates == ClosePending ~> CloseCleared
\* a close that went through the MARKET fallback: its exit price is a MARKET
\* fill (no LIMIT price is one) and the Position is cleared
C1_ClosedByMarketFallback ==
    /\ currentPosition = Null
    /\ \E t \in InFlight : t.k = "close" /\ t.pc = "save" /\ t.attempt = maxRetries
                              /\ t.px \in Fills

OpenRoundTrips ==
    LET S == {t \in InFlight : t.k = "open" /\ t.pc \in {"limits", "ticker", "order"}}
    IN  IF S = {} THEN 0 ELSE BagCardinality([t \in S |-> tasks[t]])

\* C3: at any time at most one PositionManager.openPosition round trip is in
\* flight.
C3_OneEntryInFlight == OpenRoundTrips <= 1

C5_TrueOnLaterDay == NewDay => canOpenPosition

\* C6: when start() is called with a document in the state file, the store's
\* currentPosition and currentStakePercentage equal the document's once
\* start() has completed.
C6_PersistedStateRestored ==
    [][(~isRunning /\ isRunning')
         => \A t \in InFlight :
               (t.k = "start" /\ t.disk0 # Null)
               => /\ currentPosition' = The(t.disk0).currentPosition
                  /\ currentStakePercentage' = The(t.disk0).currentStakePercentage]_vars

C8_RunningOnlyAfterAllSteps ==
    [][(~isRunning /\ isRunning')
         => \E t \in InFlight : t.k = "start" /\ t.pc = "levelsSave" /\ t.ok]_vars

\* C9: once stop() has returned no level-refresh interval remains scheduled.
C9_TimerCancelledOnStop == stopReturned => levelTimers = 0

\* C10: once stop() has returned no socket is connecting or open and no
\* reconnect is pending.
C10_StreamTornDown ==
    stopReturned => /\ \A s \in 1..MaxSockets : sockets[s] \notin {"connecting", "open"}
                    /\ reconnecting = 0

\* C11: a failure raised inside tick handling is caught and reported with an
\* error event, and the promise of the tick handler handed to the stream is
\* never rejected.
C11_TickFailureContained == last.rejected # "tick"

\* C12: the step in which a periodic level refresh fails emits an error event
\* and leaves isRunning, the cached LevelAnalysis and its timestamp as they were.
RefreshFailed == \E t \in InFlight : t.k = "refresh" /\ t.pc = "levels" /\ tasks' = Finish(t)
C13_FailedEntryNotRetried ==
    [][last'.cause = "createOrder"
         => /\ Count({"open"})' = Count({"open"}) - 1
            /\ currentPosition' = currentPosition
            /\ last'.event = "error"
            /\ ~isOpeningPosition']_vars
\* an entry order has just been rejected: the engine runs on with no Position,
\* no attempt in flight and the guard clear
C13_EntryOrderRejected ==
    /\ last.cause = "createOrder"
    /\ isRunning /\ currentPosition = Null
    /\ Count({"open"}) = 0 /\ ~isOpeningPosition

\* the closePosition calls in flight, and where their loops stand: a LIMIT
\* order is with the exchange at "limit", a MARKET order at "market"
CloseCalls == {t \in InFlight : t.k = "close"}
LimitPhase == {"ticker", "limit", "sleep"}
MarketPhase == {"market", "marketSleep"}

\* C14: within one closePosition call every LIMIT attempt has its own number
\* from 1 to maxRetries, a MARKET order is submitted only when attempt
\* maxRetries has failed, and no LIMIT attempt follows a MARKET attempt.
C14_LimitsThenMarket ==
    [][/\ \A u \in CloseCalls' :
             /\ u.pc \in LimitPhase => u.attempt \in 1..maxRetries
             /\ u.pc \in MarketPhase => u.attempt = maxRetries
       /\ \A t \in CloseCalls : \A u \in CloseCalls' :
             /\ (t.pc = "limit" /\ u.pc = "limit") => u = t
             /\ (t.pc \in {"limit", "sleep"} /\ u.pc = "ticker") => u.attempt > t.attempt
             /\ t.pc \in MarketPhase => u.pc \notin LimitPhase]_vars
\* three LIMIT attempts have failed and a MARKET order is with the exchange
C14_MarketAfterThreeLimits ==
    /\ \E t \in CloseCalls : t.pc = "market" /\ t.attempt = maxRetries
    /\ currentPosition # Null

\* C15: closePosition returns in the step in which the exchange accepts a
\* close order, LIMIT or MARKET, with exitPrice the price of that order, and
\* a call that has returned submits no further order.
C15_StopsAtAcceptedOrder ==
    [][\A t \in CloseCalls : \A u \in CloseCalls' :
          /\ (t.pc # "save" /\ u.pc = "save") => t.pc \in {"limit", "market"}
          /\ (t.pc = "limit" /\ u.pc = "save") => u.px = t.px
          /\ (t.pc = "market" /\ u.pc = "save") => u.px \in Fills
          /\ t.pc = "save" => u = t]_vars
\* the only call in flight has returned from a MARKET order accepted after
\* three failed LIMIT attempts: its exit price is the MARKET fill
C15_ReturnedFromMarketOrder ==
    /\ Cardinality(CloseCalls) = 1
    /\ \A t \in CloseCalls : t.pc = "save" /\ t.attempt = maxRetries /\ t.px \in Fills

\* a writeFile of save() has not resolved yet
SaveInFlight == \E t \in InFlight : t.doc # Null

\* C16: once the engine runs, whenever no save is in flight the state file
\* holds the serialization of the in-memory state, also after a tick
\* handler's save and the refresh timer's save have overlapped.
C16_DiskTracksMemory == (isRunning /\ ~SaveInFlight) => disk = Some(Doc)

LoadStep(t) == t.k = "start" /\ t.pc = "load" /\ t \notin InFlight'

\* the store as its constructor leaves it
Defaults ==
    /\ currentPosition = Null /\ currentStakePercentage = InitialStake
    /\ accountBalance = Null /\ lastLevels = Null /\ lastUpdate = Null

\* C18: load() on a missing state file raises nothing and leaves the store as
\* it was, which on a fresh store is the defaults (no Position, default stake,
\* no balance, no levels), and start() goes on; load() on an unreadable file
\* fails: start() rejects and does not make the engine running.
C18_LoadMissingOrUnreadable ==
    [][\A t \in InFlight : LoadStep(t) =>
          /\ disk = Null =>
                /\ last'.event # "error"
                /\ \E u \in InFlight' : u.k = "start" /\ u.pc = "levels"
                /\ UNCHANGED stateVars
                /\ Defaults => Defaults'
          /\ (disk # Null /\ The(disk) = Unreadable) =>
                /\ last'.event = "error" /\ last'.rejected = "start"
                /\ Count({"start"})' = Count({"start"}) - 1
                /\ isRunning' = isRunning]_vars
\* start() has just rejected because load() failed on an unreadable file
C18_StartRejectedByLoad ==
    /\ last.cause = "load" /\ last.rejected = "start"
    /\ ~isRunning /\ disk = Some(Unreadable) /\ Defaults

\* the stored Position before and after a step is the same trade
SamePosition ==
    /\ currentPosition # Null /\ currentPosition' # Null
    /\ The(currentPosition').type = The(currentPosition).type
    /\ The(currentPosition').entryPrice = The(currentPosition).entryPrice
    /\ The(currentPosition').takeProfit = The(currentPosition).takeProfit

\* the kept Position's stop has moved away from the price
Loosened ==
    IF The(currentPosition).type = "LONG"
    THEN The(currentPosition').stopLoss < The(currentPosition).stopLoss
    ELSE The(currentPosition').stopLoss > The(currentPosition).stopLoss

\* C19: no step of handling a tick against a stored Position (exit check,
\* trailing update, close) loosens its stopLoss: a LONG's stop never
\* decreases and a SHORT's never increases.
C19_StopOnlyTightens ==
    [][(SamePosition /\ (Ticks \/ Trailing \/ Closing)) => ~Loosened]_vars
\* a SHORT's stop has just been trailed down below its initial stop
C19_ShortStopTrailed ==
    /\ last.event = "stopLossUpdated"
    /\ \E q \in currentPosition :
          q.type = "SHORT" /\ q.stopLoss < calculateInitialStop("SHORT", q.entryPrice)

\* C20: checkExitConditions says close exactly when the price is at or beyond
\* the stop (LONG: at or below, SHORT: at or above) or at or beyond the target
\* (LONG: at or above, SHORT: at or below); the reason is stopLoss whenever
\* the stop condition holds, takeProfit when only the target condition does,
\* and there is no reason when it does not say close.
C20_ExitConditions ==
    \A t \in InFlight : t.k = "exit" =>
        LET stopHit == IF t.pos.type = "LONG" THEN t.px <= t.pos.stopLoss
                       ELSE t.px >= t.pos.stopLoss
            targetHit == IF t.pos.type = "LONG" THEN t.px >= t.pos.takeProfit
                         ELSE t.px <= t.pos.takeProfit
        IN  /\ t.ok <=> (stopHit \/ targetHit)
            /\ stopHit => t.reason = "stopLoss"
            /\ (targetHit /\ ~stopHit) => t.reason = "takeProfit"
            /\ ~t.ok => t.reason = "none"
\* a LONG whose stop and target conditions both hold at the price: the
\* result says close, for stopLoss
C20_BothHoldStopWins ==
    \E t \in InFlight :
        /\ t.k = "exit" /\ t.pos.type = "LONG"
        /\ t.px <= t.pos.stopLoss /\ t.px >= t.pos.takeProfit
        /\ t.ok /\ t.reason = "stopLoss"

\* the prices of every level of a per-timeframe table
AllLevels(byTimeframe) == UNION {Range(byTimeframe[tf]) : tf \in DOMAIN byTimeframe}

\* C21: checkEntryConditions gives a LONG signal exactly when some support of
\* any timeframe is within 0.1 % of the price and some resistance lies strictly
\* above the price, its target the lowest such resistance; otherwise a SHORT
\* signal exactly when some resistance is within 0.1 % and some support lies
\* strictly below, its target the highest such support; otherwise, and on no
\* levels at all, no signal.
C21_EntrySignal ==
    \A t \in InFlight : t.k = "entry" =>
        IF t.doc = Null THEN t.pos = NoPos
        ELSE LET supports == AllLevels(The(t.doc).holdLevels)
                 resistances == AllLevels(The(t.doc).resistanceLevels)
                 near(l) == Abs(t.px - l) * 1000 <= l
                 above == {r \in resistances : r > t.px}
                 below == {s \in supports : s < t.px}
                 long == (\E s \in supports : near(s)) /\ above # {}
                 short == ~long /\ (\E r \in resistances : near(r)) /\ below # {}
             IN  /\ t.pos.type = "LONG" <=> long
                 /\ t.pos.type = "SHORT" <=> short
                 /\ t.pos.type = "NONE" <=> (~long /\ ~short)
                 /\ long => /\ t.pos.takeProfit \in above
                            /\ \A r \in above : t.pos.takeProfit <= r
                 /\ short => /\ t.pos.takeProfit \in below
                             /\ \A s \in below : t.pos.takeProfit >= s
                 /\ t.pos.type # "NONE" => t.pos.entryPrice = t.px
\* price 100.000 with a support at 100.050 and resistances stored as 105.000
\* (4h) before 102.000 (15m): a LONG signal whose target is 102.000
C21_LongToNearestResistance ==
    \E t \in InFlight :
        /\ t.k = "entry" /\ t.px = 100000 /\ t.doc # Null
        /\ Flatten(The(t.doc).resistanceLevels) = <<105000, 102000>>
        /\ t.pos.type = "LONG" /\ t.pos.takeProfit = 102000

\* a socket has ended in this step: dropped, closed, or failed to connect
ConnectionLost == \E s \in 1..MaxSockets : sockets[s] # "free" /\ sockets'[s] = "free"

C23_SaveAtomicUnderCrash == last.event = "crash" => disk # Some(Unreadable)

\* C24: a tick starts an entry only on a running engine with no Position
\* stored and canOpenPosition() true, and then starts no close or trailing
\* update; it starts a close or a trailing update only on a running engine
\* with a Position stored, a close only when some exit condition can hold, and
\* then starts no entry; and no tick does anything while the engine is not
\* running.
C24_OneBranchPerTick ==
    [][/\ Count({"open"})' > Count({"open"})
            => /\ isRunning /\ currentPosition = Null /\ canOpenPosition
               /\ Count({"close", "trail"})' = Count({"close", "trail"})
               /\ currentPosition' = Null
       /\ Count({"close"})' > Count({"close"})
            => /\ isRunning /\ currentPosition # Null
               /\ \E price \in Prices :
                     checkExitConditions(The(currentPosition), price).shouldClose
               /\ Count({"open", "trail"})' = Count({"open", "trail"})
       /\ Count({"trail"})' > Count({"trail"})
            => /\ isRunning /\ currentPosition # Null
               /\ Count({"open", "close"})' = Count({"open", "close"})
       /\ ~isRunning => /\ ~Ticks
                        /\ Count(TickKinds)' <= Count(TickKinds)]_vars
\* stop() has returned and a socket it left behind is open: ticks reach the
\* callback of a stopped engine that holds a Position whose stop they can hit
C24_TicksReachStoppedEngine ==
    /\ stopReturned /\ ~isRunning /\ Streaming
    /\ \E q \in currentPosition : \E price \in Prices :
          checkExitConditions(q, price).shouldClose
    /\ Count(TickKinds) = 0

\* C25: the Position openPosition builds has its stopLoss at one distance of
\* 0.16 % from the entry price on either side, below it for a LONG and above
\* it for a SHORT, and its takeProfit at the signal's target level.
C25_InitialStopOneFactor ==
    \A t \in InFlight : (t.k = "open" /\ t.pc = "save") =>
        /\ t.pos.stopLoss =
              IF t.pos.type = "LONG"
              THEN t.pos.entryPrice - RoundDiv(t.pos.entryPrice * 16, 10000)
              ELSE t.pos.entryPrice + RoundDiv(t.pos.entryPrice * 16, 10000)
        /\ \E signal \in checkEntryConditions(t.pos.entryPrice, lastLevels) :
              t.pos.takeProfit = signal.nextLevel

\* the entries waiting for getOpenLimitOrders
AwaitingLimits == {t \in InFlight : t.k = "open" /\ t.pc = "limits"}

\* C26: when 4 or more LIMIT orders rest on the entry's side, openPosition
\* throws: the entry ends with an error, no order is submitted and no Position
\* stored; with fewer than 4, the entry goes on to fetchTicker and the entry
\* order.
C26_LimitOrderThrottle ==
    [][\A t \in AwaitingLimits : t \notin InFlight' =>
          IF t.attempt >= maxOpenLimitOrders
          THEN /\ Count({"open"})' = Count({"open"}) - 1
               /\ last'.event = "error" /\ last'.cause = "openLimitOrders"
               /\ currentPosition' = currentPosition
          ELSE /\ Count({"open"})' = Count({"open"})
               /\ \E u \in InFlight' : u.k = "open" /\ u.pc = "ticker" /\ u.pos = t.pos
               /\ last'.event # "error"]_vars

\* C27: openPosition always submits an entry order, never for less than the
\* minimum amount: the amount is size / ticker price, or the minimum when that
\* is below it, and then the Position's size is minimum x entry price; the
\* Position's contractAmount is the amount of the order it submitted.
C27_SizingSubstitutesMinimum ==
    \A t \in InFlight : t.k = "size" =>
        LET computed == RoundDiv(t.target * 1000000, t.px)
            order == The(t.doc).order
            position == The(t.doc).position
        IN  /\ order.amount >= minAmount
            /\ position.contractAmount = order.amount
            /\ computed >= minAmount =>
                  order.amount = computed /\ position.size = t.target
            /\ computed < minAmount =>
                  /\ order.amount = minAmount
                  /\ position.size = RoundDiv(minAmount * t.pos.entryPrice, 1000000)
\* an entry of size 0.09 at a ticker of 102.000: the amount falls below the
\* minimum, the minimum is ordered and the Position's size is 0.10
C27_MinimumOrdered ==
    \E t \in InFlight :
        /\ t.k = "size" /\ t.target = 9 /\ t.px = 102000 /\ t.pos.entryPrice = 100000
        /\ The(t.doc).order.amount = minAmount
        /\ The(t.doc).position.contractAmount = minAmount
        /\ The(t.doc).position.size = 10

\* C28: every order closePosition builds, LIMIT or MARKET, is reduce-only, on
\* the side opposite to the Position (SELL for a LONG, BUY for a SHORT) and
\* for the Position's contractAmount; a LIMIT order to sell is priced below
\* the ticker and one to buy above it.
C28_CloseOrdersReduceOnly ==
    \A t \in InFlight : t.k = "closeOrder" =>
        LET order == The(t.doc)
        IN  /\ order.reduceOnly
            /\ order.side = IF t.pos.type = "LONG" THEN "SELL" ELSE "BUY"
            /\ order.amount = t.pos.contractAmount
            /\ order.type \in {"LIMIT", "MARKET"}
            /\ (order.type = "LIMIT" /\ order.side = "SELL") => order.price < t.px
            /\ (order.type = "LIMIT" /\ order.side = "BUY") => order.price > t.px
\* a LIMIT order to buy back a SHORT at a ticker of 99.800: priced 99.850
C28_LimitBuyAboveTicker ==
    \E t \in InFlight :
        /\ t.k = "closeOrder" /\ t.pos.type = "SHORT" /\ t.px = 99800
        /\ The(t.doc).type = "LIMIT" /\ The(t.doc).side = "BUY"
        /\ The(t.doc).price = 99850 /\ The(t.doc).reduceOnly

\* C29: handleLoss() sets lastLossDate to the current day and adds one to
\* dailyLosses when the loss before was recorded on the same day, and sets it
\* to 1 otherwise; so dailyLosses is always the number of losses recorded on
\* the day lastLossDate holds.
C29_DailyLossesCountTheDay ==
    /\ [](lastLossDate # Null => dailyLosses = lossesOn(The(lastLossDate)))
    /\ [][RecordLoss =>
            /\ lastLossDate' = Some(today)
            /\ dailyLosses' = IF lastLossDate = Some(today)
                              THEN dailyLosses + 1 ELSE 1]_vars
\* the first loss of a later day, recorded while lastLossDate still held the
\* day before with its two losses: the counter is 1
C29_FirstLossOfNewDay ==
    /\ last.event = "loss" /\ today = 1
    /\ lossesOn(0) = 2 /\ lossesOn(1) = 1
    /\ dailyLosses = 1 /\ lastLossDate = Some(1)

\* C30: a tick that finds no Position and is refused by canOpenPosition()
\* places no order, emits nothing and rejects nothing, and leaves the engine's
\* flags, the store, the state file and the RiskManager's counter and date as
\* they were.
C30_RefusalChangesNothing ==
    [][(AtGate /\ dailyLosses >= maxDailyLosses /\ Ticks)
         => /\ UNCHANGED <<tasks, isRunning, isOpeningPosition, levelTimers>>
            /\ UNCHANGED <<currentPosition, currentStakePercentage, accountBalance,
                           lastLevels, lastUpdate, disk>>
            /\ UNCHANGED <<dailyLosses, lastLossDate>>
            /\ last'.event = "none" /\ last'.rejected = "none"]_vars
\* a tick has just been refused on the day after the losses that closed the gate
C30_RefusedOnTheNextDay ==
    /\ last = Refused
    /\ dailyLosses >= maxDailyLosses /\ NewDay
    /\ currentPosition = Null /\ Count({"open"}) = 0

\* C31: while tick handling keeps a Position stored, its stop moves only by
\* updateStopLoss, which appends one record {oldValue, newValue} and starts a
\* save, so updates only grows; in every state each record's oldValue is the
\* newValue of the record before (the initial stop for the first) and the
\* last newValue is the stop.
AuditChain(position) ==
    LET updates == position.updates
    IN  /\ \A i \in 1..Len(updates) :
              updates[i].oldValue =
                  IF i = 1 THEN calculateInitialStop(position.type, position.entryPrice)
                  ELSE updates[i - 1].newValue
        /\ position.stopLoss =
              IF updates = <<>> THEN calculateInitialStop(position.type, position.entryPrice)
              ELSE updates[Len(updates)].newValue
C31_StopAuditTrail ==
    /\ [](\A position \in currentPosition : AuditChain(position))
    /\ [][(SamePosition /\ (TrailTicks \/ Ticks \/ Trailing \/ Closing)) =>
            LET old == The(currentPosition)
                new == The(currentPosition')
            IN  \/ new.stopLoss = old.stopLoss /\ new.updates = old.updates
                \/ /\ new.stopLoss # old.stopLoss
                   /\ new.updates = Append(old.updates, [oldValue |-> old.stopLoss,
                                                         newValue |-> new.stopLoss])
                   /\ Count({"trail"})' = Count({"trail"}) + 1]_vars
\* the stop of the LONG from 100.000 has been moved twice, at 100.500 and at
\* 101.250: two records, 99.840 to 100.339 and 100.339 to 101.088
C31_TwoRecords ==
    \E position \in currentPosition :
        /\ position.updates = << [oldValue |-> 99840, newValue |-> 100339],
                                 [oldValue |-> 100339, newValue |-> 101088] >>
        /\ position.stopLoss = 101088

\* C32: stopped is emitted only by the step in which the save of a stop()
\* resolves, which comes after its stopPriceStream() call, and with it stop()
\* returns; a stop() whose save fails emits error, rejects and does not emit
\* stopped or count as returned.
C32_StoppedAfterTeardownAndSave ==
    [][/\ last'.event = "stopped"
            => /\ stopReturned'
               /\ \E t \in InFlight :
                     /\ t.k = "stop" /\ t.pc = "save"
                     /\ tasks' = Finish(t)
                     /\ disk' = t.doc
       /\ (\E t \in InFlight : StopSaveFailed(t))
            => /\ last'.event = "error" /\ last'.rejected = "stop"
               /\ stopReturned' = stopReturned
               /\ disk' = disk]_vars
\* a stop() has just failed at its save: the engine is not running, the error
\* was emitted, and stop() has not returned
C32_StopFailedAtSave ==
    /\ last = Rethrown("stop", "save")
    /\ ~isRunning /\ ~stopReturned
    /\ Count({"stop"}) = 0

\* C33: the step that ends a close of the engine leaves currentStakePercentage
\* doubled, up to the cap, after a win and halved, down to the floor, after a
\* loss.
C33_StakeAdaptsOnClose ==
    [][\A t \in InFlight :
          (t.k = "close" /\ t.pc = "save" /\ CloseSaved(t))
          => currentStakePercentage' =
                adjustStakePercentage(currentStakePercentage, ~isLoss(t.pos, t.px))]_vars

\* C34: the step in which a close clears the stored Position clears the
\* Position that close was started for (same side, entry price and target),
\* not one opened since.
C34_CloseClearsItsOwnPosition ==
    [][\A t \in InFlight :
          (/\ t.k = "close"
           /\ CloseLimitAccepted(t) \/ CloseMarketAccepted(t)
           /\ currentPosition # Null)
          => /\ The(currentPosition).type = t.pos.type
             /\ The(currentPosition).entryPrice = t.pos.entryPrice
             /\ The(currentPosition).takeProfit = t.pos.takeProfit]_vars

\* C35: a close order is accepted, and with it a positionClosed event and a
\* loss count are on their way, only for a Position that is still stored:
\* never for one an earlier accepted close order has already closed.
C35_ClosedOnce ==
    [][\A t \in InFlight :
          (t.k = "close" /\ (CloseLimitAccepted(t) \/ CloseMarketAccepted(t)))
          => currentPosition # Null]_vars

\* C36: once stop() has returned, and until a start() is called, the steps of
\* handlers that were in flight (an entry, a close, a trailing save, a level
\* refresh) submit no order, leave the store and the state file as they are
\* and emit nothing.
C36_NothingAfterStop ==
    [][(stopReturned /\ stopReturned' /\ (Refreshing \/ Opening \/ Trailing \/ Closing))
         => /\ UNCHANGED <<currentPosition, currentStakePercentage, accountBalance,
                           lastLevels, lastUpdate, disk>>
            /\ last'.event = "none"
            /\ \A u \in InFlight' : u.pc \in {"order", "limit", "market"} => u \in InFlight]_vars

\* C37: while the account balance is unknown or zero, so that an entry's size
\* is 0, no entry has an order with the exchange or a Position stored.
C37_NoEntryWithoutBalance ==
    (accountBalance = Null \/ 0 \in accountBalance)
    => \A t \in InFlight : t.k = "open" => t.pc \notin {"order", "save"}

\* C38: at any time at most one socket of the connector is connecting or
\* open and at most one reconnect is pending.
C38_OneConnection ==
    /\ Cardinality({s \in 1..MaxSockets : sockets[s] \in {"connecting", "open"}}) <= 1
    /\ reconnecting <= 1

\* C39: over every sequence of start() and stop() calls at most one
\* level-refresh interval is scheduled and at most one socket delivers ticks.
C39_OneSubscriptionOneTimer ==
    /\ levelTimers <= 1
    /\ Cardinality({s \in 1..MaxSockets : sockets[s] = "open"}) <= 1

\* C40: the step in which the price stream of a running engine ends for good
\* (its last socket gone and no reconnect scheduled) emits an error event
\* that is delivered to a listener, or leaves the engine not running.
C40_StreamFailureReachesEngine ==
    [][(isRunning /\ Disconnect /\ Streams > 0 /\ Streams' = 0)
         => \/ ~isRunning'
            \/ last'.event = "error" /\ last'.rejected = "none"]_vars

====
